---- MODULE Spec2Model ----
(***************************************************************************)
(* Wallet ledger and escrow settlement of the PlayChaCha backend.          *)
(*                                                                         *)
(* The persistent rows (wallets, transactions, bets, bet matches, escrows, *)
(* payouts) are the state.  Every service function is a request handled    *)
(* by a worker; a worker's handler is cut at its database round trips:     *)
(*   - "Begin"  : the first reads and the business-rule checks,            *)
(*   - "Update" : the re-read of the wallet rows inside updateBalance,     *)
(*   - "Commit" : t.commit(), which makes the buffered writes visible.     *)
(* sequelize.transaction() is opened without an isolation level, so the    *)
(* store runs READ COMMITTED: a read sees what is committed at that        *)
(* moment, writes of a transaction become visible together at its commit,  *)
(* and a rollback discards them.  Statements issued without a transaction  *)
(* (createDispute, disputeEscrow, getWallet/createWallet) commit at once.  *)
(*                                                                         *)
(* Money is counted in cents (the DECIMAL(15,2) columns); odds in          *)
(* hundredths (DECIMAL(10,2)).  A value written to a DECIMAL(15,2) column  *)
(* is rounded to the cent by the store (StoreDecimal).                     *)
(*                                                                         *)
(* The escrow service works on bet matches that have no escrow yet; such   *)
(* matches are seeded in InitEscrow the way the documented service tests   *)
(* seed them (docs/api-integration.md 286-302).                            *)
(***************************************************************************)
EXTENDS Integers, Sequences, FiniteSets, TLC

VARIABLES
  balance,      \* Wallet.balance per user (USD wallet), in cents
  wstatus,      \* Wallet.status per user; "none" = no wallet row yet
  dupWallets,   \* per user: Wallet rows beyond the one Wallet.findOne returns
  txns,         \* Transaction rows, in commit order
  bets,         \* Bet rows
  matches,      \* BetMatch rows
  escrows,      \* Escrow rows
  payouts,      \* Payout rows
  eventStarted, \* the event's start_time has passed
  pc,           \* per worker: position inside the handler it runs
  loc,          \* per worker: the handler's arguments and local variables
  outcome,      \* per worker: last finished call and what it returned/threw
  wrote,        \* per worker: the running/last call made a committed write
  opening,      \* balances at the start (for the ledger equations)
  nops          \* number of calls started so far

dbvars == <<balance, wstatus, dupWallets, txns, bets, matches, escrows, payouts>>
vars == <<balance, wstatus, dupWallets, txns, bets, matches, escrows, payouts,
          eventStarted, pc, loc, outcome, wrote, opening, nops>>

----------------------------------------------------------------------------
(* Bounds and the small input sets *)

MaxOps == 3

Procs == {"w1", "w2"}
Users == {"u1", "u2", "u3"}      \* u1 creator, u2 taker, u3 outsider / admin
Admin == "u3"
NoUser == "null"

StakeChoices == {225, 260}
OddsChoices == {180}
EscrowBalanceChoices == {200, 800}
BetMatchIdChoices == {1}         \* BetMatch ids a settleBet request names
LedgerBalanceChoices == {300, 3000}
WithdrawalChoices == {1000, 1500}

----------------------------------------------------------------------------
(* Program constants *)

FeeRateNum == 3      \* PLATFORM_FEE_PERCENT = 0.03
FeeRateDen == 100
MinWithdrawalAmount == 1000      \* MIN_WITHDRAWAL_AMOUNT=10.00
MaxWithdrawalAmount == 5000000   \* MAX_WITHDRAWAL_AMOUNT=50000.00
MinStake == 100                  \* validate: { min: 1 } on stake_amount

----------------------------------------------------------------------------
(* Helpers *)

\* sum of the amount column of a sequence of rows
RECURSIVE SumAmount(_)
SumAmount(s) == IF s = <<>> THEN 0 ELSE Head(s).amount + SumAmount(Tail(s))

\* A JavaScript number worth num/den cents (num >= 0, den > 0) written to a
\* DECIMAL(15,2) column: the store rounds the decimal text of the double to
\* the cent.  The double is the product or quotient of two doubles, so on an
\* exact tie (num/den = k + 1/2) its rounding error decides between k and
\* k + 1 (2.50 * 0.03 is stored as 0.08, 5.50 * 0.03 as 0.16); off a tie the
\* nearest cent is stored.
StoreFloat(num, den) ==
  IF (2 * num) % (2 * den) = den
  THEN {num \div den, num \div den + 1}
  ELSE {(2 * num + den) \div (2 * den)}

\* platformFee = amount * PLATFORM_FEE_PERCENT (escrowService line 52), as
\* stored in platform_fee
PlatformFee_Truncating(amount) == {(amount * FeeRateNum) \div FeeRateDen}
PlatformFee(amount) == StoreFloat(amount * FeeRateNum, FeeRateDen)

\* BetMatch.status validator: isIn ['active','settled','cancelled','refunded']
BetMatchStatusValid(s) == s \in {"active", "settled", "cancelled", "refunded"}

NoLoc == [op |-> "none"]
NoOutcome == [op |-> NoLoc, res |-> "none"]

\* the call o returns (res = "ok") or throws (res = the error message)
Reject(p, o, res) ==
  /\ pc' = [pc EXCEPT ![p] = "idle"]
  /\ outcome' = [outcome EXCEPT ![p] = [op |-> o, res |-> res]]
  /\ loc' = [loc EXCEPT ![p] = NoLoc]

Finish(p, res) == Reject(p, loc[p].call, res)

Goto(p, label, l) ==
  /\ pc' = [pc EXCEPT ![p] = label]
  /\ loc' = [loc EXCEPT ![p] = l]
  /\ UNCHANGED outcome

\* the locals of a call o right after its first step
Locals(o, l) == [call |-> o] @@ o @@ l

\* a new call is accepted by an idle worker
Accept(p) ==
  /\ pc[p] = "idle"
  /\ nops < MaxOps
  /\ nops' = nops + 1

----------------------------------------------------------------------------
(* walletService.getWallet / createWallet: the wallet row is created on   *)
(* first access, outside any transaction.                                  *)

getWallet(ws, u) == IF ws[u] = "none" THEN [ws EXCEPT ![u] = "active"] ELSE ws

updateBalanceCheck_NoStatusCheck(u, amount) ==
  IF wstatus[u] = "none" THEN "Wallet not found"
  ELSE IF balance[u] + amount < 0 THEN "Insufficient funds"
  ELSE "ok"
\* walletService.updateBalance, read half: the error it throws for the balance
\* it reads, or "ok"
updateBalanceCheck(u, amount) ==
  IF wstatus[u] = "none" THEN "Wallet not found"
  ELSE IF wstatus[u] # "active" THEN "Wallet is not active"
  ELSE IF balance[u] + amount < 0 THEN "Insufficient funds"
  ELSE "ok"

\* walletService.updateBalance, the value wallet.save() will write
updateBalanceValue(u, amount) == balance[u] + amount

----------------------------------------------------------------------------
(* Row constructors *)

NewTxn(w, amount, type, status, ref) ==
  [wallet |-> w, amount |-> amount, type |-> type, status |-> status, ref |-> ref]

NewEscrow(m, amount, fee) ==
  [bet_match_id |-> m, amount |-> amount, platform_fee |-> fee,
   status |-> "active", winner_id |-> NoUser, resolved_by |-> NoUser,
   dispute_reason |-> FALSE, released |-> FALSE,
   creator_amount |-> 0, taker_amount |-> 0]

\* BettingService.createBet line 425: potentialPayout = stake_amount * odds
PotentialPayout(stake, odds) == StoreFloat(stake * odds, 100)

\* BettingService.takeBet line 521: requiredStake
RequiredStake(bet) == bet.potential_payout - bet.amount

\* a Bet row; amount is the creator's stake (Bet.stake_amount for the betting
\* service, bet.amount for the escrow service)
NewBet(creator, stake, odds, payout, status) ==
  [creator_id |-> creator, amount |-> stake, odds |-> odds,
   potential_payout |-> payout, status |-> status]

NewBetMatch(b, taker, stake, status) ==
  [bet_id |-> b, taker_id |-> taker, stake_amount |-> stake, status |-> status]

NewPayout(u, e, amount, t) ==
  [user_id |-> u, escrow_id |-> e, amount |-> amount, status |-> "completed",
   transaction_id |-> t]

\* winnings = parseFloat(escrow.amount) - parseFloat(escrow.platform_fee)
Winnings_NoFee(e) == escrows[e].amount
Winnings(e) == escrows[e].amount - escrows[e].platform_fee

\* resolveDispute line 497: betAmount = parseFloat(escrow.amount) / 2, as the
\* refund Transactions store it
RefundShare_NetOfFee(e) == StoreFloat(escrows[e].amount - escrows[e].platform_fee, 2)
RefundShare(e) == StoreFloat(escrows[e].amount, 2)

CreatorOf(e) == bets[matches[escrows[e].bet_match_id].bet_id].creator_id
TakerOf(e) == matches[escrows[e].bet_match_id].taker_id

----------------------------------------------------------------------------
(* escrowService.createEscrow(betMatchId) *)

\* lines 67-73: the two balance checks, each against bet.amount
createEscrowFundsCheck_CreatorOnly(creator, taker, stake) ==
  IF balance[creator] < stake THEN "Creator has insufficient funds" ELSE "ok"
createEscrowFundsCheck(creator, taker, stake) ==
  IF balance[creator] < stake THEN "Creator has insufficient funds"
  ELSE IF balance[taker] < stake THEN "Taker has insufficient funds"
  ELSE "ok"

\* lines 18-73: load the match, uniqueness check, Escrow.create (buffered in
\* t), getWallet of both parties, the two balance checks
ES_createEscrow_Begin(p, m) ==
  /\ Accept(p)
  /\ LET o == [op |-> "ES.createEscrow", m |-> m] IN
     IF m \notin DOMAIN matches
     THEN Reject(p, o, "Bet match not found") /\ UNCHANGED wstatus
     ELSE IF \E e \in DOMAIN escrows : escrows[e].bet_match_id = m
     THEN Reject(p, o, "Escrow already exists for this bet match") /\ UNCHANGED wstatus
     ELSE LET bet == bets[matches[m].bet_id]
              amount == bet.amount * 2
              creator == bet.creator_id
              taker == matches[m].taker_id
          IN /\ wstatus' = getWallet(getWallet(wstatus, creator), taker)
             /\ IF createEscrowFundsCheck(creator, taker, bet.amount) # "ok"
                THEN Reject(p, o, createEscrowFundsCheck(creator, taker, bet.amount))
                ELSE \E platformFee \in PlatformFee(amount) :
                       Goto(p, "ES.createEscrow.update",
                            Locals(o, [amount |-> amount, fee |-> platformFee,
                                       stake |-> bet.amount, creator |-> creator,
                                       taker |-> taker]))
  /\ wrote' = [wrote EXCEPT ![p] = (wstatus' # wstatus)]
  /\ UNCHANGED dupWallets
  /\ UNCHANGED <<balance, txns, bets, matches, escrows, payouts, eventStarted, opening>>

\* lines 76-108: the two Transaction.create (buffered) and the two
\* updateBalance calls, each of which re-reads its wallet row
ES_createEscrow_Update(p) ==
  /\ pc[p] = "ES.createEscrow.update"
  /\ LET l == loc[p]
         c1 == updateBalanceCheck(l.creator, -l.stake)
         c2 == updateBalanceCheck(l.taker, -l.stake)
     IN IF c1 # "ok" THEN Finish(p, c1)
        ELSE IF c2 # "ok" THEN Finish(p, c2)
        ELSE Goto(p, "ES.createEscrow.commit",
                  l @@
                  [creatorBalance |-> updateBalanceValue(l.creator, -l.stake),
                   takerBalance |-> updateBalanceValue(l.taker, -l.stake)])
  /\ UNCHANGED <<dbvars, eventStarted, wrote, opening, nops>>

\* lines 111-116: betMatch.update and t.commit()
ES_createEscrow_Commit(p) ==
  /\ pc[p] = "ES.createEscrow.commit"
  /\ LET l == loc[p]
         e == Len(escrows) + 1
     IN /\ escrows' = Append(escrows, NewEscrow(l.m, l.amount, l.fee))
        /\ txns' = txns \o <<NewTxn(l.creator, -l.stake, "bet", "completed", e),
                             NewTxn(l.taker, -l.stake, "bet", "completed", e)>>
        /\ balance' = [balance EXCEPT ![l.creator] = l.creatorBalance,
                                      ![l.taker] = l.takerBalance]
        /\ matches' = [matches EXCEPT ![l.m].status = "active"]
  /\ Finish(p, "ok")
  /\ wrote' = [wrote EXCEPT ![p] = TRUE]
  /\ UNCHANGED <<wstatus, dupWallets, bets, payouts, eventStarted, opening, nops>>

----------------------------------------------------------------------------
(* escrowService.releaseEscrow(escrowId, winnerId) *)

\* lines 230-268: load the escrow, status and party checks, winnings, getWallet
ES_releaseEscrow_Begin(p, e, winnerId) ==
  /\ Accept(p)
  /\ LET o == [op |-> "ES.releaseEscrow", e |-> e, winnerId |-> winnerId] IN
     IF e \notin DOMAIN escrows
     THEN Reject(p, o, "Escrow not found") /\ UNCHANGED wstatus
     ELSE IF escrows[e].status # "active"
     THEN Reject(p, o, "Escrow is not active") /\ UNCHANGED wstatus
     ELSE IF winnerId # CreatorOf(e) /\ winnerId # TakerOf(e)
     THEN Reject(p, o, "Winner is not part of this bet") /\ UNCHANGED wstatus
     ELSE /\ wstatus' = getWallet(wstatus, winnerId)
          /\ Goto(p, "ES.releaseEscrow.update",
                  Locals(o, [winnings |-> Winnings(e)]))
  /\ wrote' = [wrote EXCEPT ![p] = (wstatus' # wstatus)]
  /\ UNCHANGED dupWallets
  /\ UNCHANGED <<balance, txns, bets, matches, escrows, payouts, eventStarted, opening>>

\* lines 271-285: Transaction.create (buffered) and updateBalance
ES_releaseEscrow_Update(p) ==
  /\ pc[p] = "ES.releaseEscrow.update"
  /\ LET l == loc[p]
         c == updateBalanceCheck(l.winnerId, l.winnings)
     IN IF c # "ok" THEN Finish(p, c)
        ELSE Goto(p, "ES.releaseEscrow.commit",
                  l @@ [winnerBalance |-> updateBalanceValue(l.winnerId, l.winnings)])
  /\ UNCHANGED <<dbvars, eventStarted, wrote, opening, nops>>

\* lines 288-311: Payout.create, escrow.update, betMatch.update, t.commit()
ES_releaseEscrow_Commit(p) ==
  /\ pc[p] = "ES.releaseEscrow.commit"
  /\ LET l == loc[p]
         m == escrows[l.e].bet_match_id
     IN /\ txns' = Append(txns, NewTxn(l.winnerId, l.winnings, "win", "completed", l.e))
        /\ balance' = [balance EXCEPT ![l.winnerId] = l.winnerBalance]
        /\ payouts' = Append(payouts, NewPayout(l.winnerId, l.e, l.winnings, Len(txns) + 1))
        /\ escrows' = [escrows EXCEPT ![l.e].status = "completed",
                                      ![l.e].winner_id = l.winnerId,
                                      ![l.e].released = TRUE]
        /\ matches' = [matches EXCEPT ![m].status = "settled"]
  /\ Finish(p, "ok")
  /\ wrote' = [wrote EXCEPT ![p] = TRUE]
  /\ UNCHANGED <<wstatus, dupWallets, bets, eventStarted, opening, nops>>

----------------------------------------------------------------------------
(* escrowService.createDispute(escrowId, userId, reason): no transaction *)

\* lines 342-369: load the escrow, status and party checks
ES_createDispute_Begin(p, e, userId) ==
  /\ Accept(p)
  /\ LET o == [op |-> "ES.createDispute", e |-> e, userId |-> userId] IN
     IF e \notin DOMAIN escrows
     THEN Reject(p, o, "Escrow not found")
     ELSE IF escrows[e].status # "active"
     THEN Reject(p, o, "Escrow is not active")
     ELSE IF userId # CreatorOf(e) /\ userId # TakerOf(e)
     THEN Reject(p, o, "User is not part of this bet")
     ELSE Goto(p, "ES.createDispute.write", Locals(o, <<>>))
  /\ wrote' = [wrote EXCEPT ![p] = FALSE]
  /\ UNCHANGED <<dbvars, eventStarted, opening>>

\* lines 372-380: escrow.update(...) commits at once; betMatch.update(...)
\* runs the BetMatch.status validator, which throws for 'disputed'
ES_createDispute_Write(p) ==
  /\ pc[p] = "ES.createDispute.write"
  /\ LET l == loc[p]
         m == escrows[l.e].bet_match_id
     IN /\ escrows' = [escrows EXCEPT ![l.e].status = "disputed",
                                      ![l.e].dispute_reason = TRUE]
        /\ IF BetMatchStatusValid("disputed")
           THEN /\ matches' = [matches EXCEPT ![m].status = "disputed"]
                /\ Finish(p, "ok")
           ELSE /\ matches' = matches
                /\ Finish(p, "Validation error")
  /\ wrote' = [wrote EXCEPT ![p] = TRUE]
  /\ UNCHANGED <<balance, wstatus, dupWallets, txns, bets, payouts, eventStarted, opening, nops>>

----------------------------------------------------------------------------
(* escrowService.resolveDispute(escrowId, winnerId, adminId, notes) *)

\* lines 403-449 / 492-500: load the escrow, status check, the buffered
\* escrow.update calls, winnings or betAmount, getWallet
ES_resolveDispute_Begin(p, e, winnerId) ==
  /\ Accept(p)
  /\ LET o == [op |-> "ES.resolveDispute", e |-> e, winnerId |-> winnerId,
               adminId |-> Admin] IN
     IF e \notin DOMAIN escrows
     THEN Reject(p, o, "Escrow not found") /\ UNCHANGED wstatus
     ELSE IF escrows[e].status # "disputed"
     THEN Reject(p, o, "Escrow is not disputed") /\ UNCHANGED wstatus
     ELSE IF winnerId # NoUser
     THEN /\ wstatus' = getWallet(wstatus, winnerId)
          /\ Goto(p, "ES.resolveDispute.update",
                  Locals(o, [winnings |-> Winnings(e)]))
     ELSE /\ wstatus' = getWallet(getWallet(wstatus, CreatorOf(e)), TakerOf(e))
          /\ \E betAmount \in RefundShare(e) :
               Goto(p, "ES.resolveDispute.update",
                    Locals(o, [creator |-> CreatorOf(e), taker |-> TakerOf(e),
                               betAmount |-> betAmount]))
  /\ wrote' = [wrote EXCEPT ![p] = (wstatus' # wstatus)]
  /\ UNCHANGED dupWallets
  /\ UNCHANGED <<balance, txns, bets, matches, escrows, payouts, eventStarted, opening>>

\* lines 452-467 / 503-535: Transaction.create (buffered) and updateBalance
ES_resolveDispute_Update(p) ==
  /\ pc[p] = "ES.resolveDispute.update"
  /\ LET l == loc[p] IN
     IF l.winnerId # NoUser
     THEN LET c == updateBalanceCheck(l.winnerId, l.winnings)
          IN IF c # "ok" THEN Finish(p, c)
             ELSE Goto(p, "ES.resolveDispute.commit",
                       l @@ [winnerBalance |-> updateBalanceValue(l.winnerId, l.winnings)])
     ELSE LET c1 == updateBalanceCheck(l.creator, l.betAmount)
              c2 == updateBalanceCheck(l.taker, l.betAmount)
          IN IF c1 # "ok" THEN Finish(p, c1)
             ELSE IF c2 # "ok" THEN Finish(p, c2)
             ELSE Goto(p, "ES.resolveDispute.commit",
                       l @@ [creatorBalance |-> updateBalanceValue(l.creator, l.betAmount),
                             takerBalance |-> updateBalanceValue(l.taker, l.betAmount)])
  /\ UNCHANGED <<dbvars, eventStarted, wrote, opening, nops>>

\* lines 469-484 / 538-557: Payout.create, the status updates, t.commit()
ES_resolveDispute_Commit(p) ==
  /\ pc[p] = "ES.resolveDispute.commit"
  /\ LET l == loc[p]
         m == escrows[l.e].bet_match_id
     IN IF l.winnerId # NoUser
        THEN /\ txns' = Append(txns, NewTxn(l.winnerId, l.winnings, "win", "completed", l.e))
             /\ balance' = [balance EXCEPT ![l.winnerId] = l.winnerBalance]
             /\ payouts' = Append(payouts,
                                  NewPayout(l.winnerId, l.e, l.winnings, Len(txns) + 1))
             /\ escrows' = [escrows EXCEPT ![l.e].status = "completed",
                                           ![l.e].winner_id = l.winnerId,
                                           ![l.e].released = TRUE,
                                           ![l.e].resolved_by = l.adminId]
             /\ matches' = [matches EXCEPT ![m].status = "settled"]
        ELSE /\ txns' = txns \o
                   <<NewTxn(l.creator, l.betAmount, "refund", "completed", l.e),
                     NewTxn(l.taker, l.betAmount, "refund", "completed", l.e)>>
             /\ balance' = [balance EXCEPT ![l.creator] = l.creatorBalance,
                                           ![l.taker] = l.takerBalance]
             /\ payouts' = payouts
             /\ escrows' = [escrows EXCEPT ![l.e].status = "refunded",
                                           ![l.e].released = TRUE,
                                           ![l.e].resolved_by = l.adminId]
             /\ matches' = [matches EXCEPT ![m].status = "cancelled"]
  /\ Finish(p, "ok")
  /\ wrote' = [wrote EXCEPT ![p] = TRUE]
  /\ UNCHANGED <<wstatus, dupWallets, bets, eventStarted, opening, nops>>

----------------------------------------------------------------------------
(* walletService.releaseEscrow(escrowId, winnerId) *)

\* lines 402-427: load the escrow, status check, winnings, getWallet.  Also
\* the body of the call made by walletService.resolveDispute (line 590).
WS_releaseEscrow_Read(p, o) ==
  IF o.e \notin DOMAIN escrows
  THEN Reject(p, o, "Escrow not found") /\ UNCHANGED wstatus
  ELSE IF escrows[o.e].status # "active"
  THEN Reject(p, o, "Escrow is not active") /\ UNCHANGED wstatus
  ELSE /\ wstatus' = getWallet(wstatus, o.winnerId)
       /\ Goto(p, "WS.releaseEscrow.update",
               Locals(o, [winnings |-> Winnings(o.e)]))

WS_releaseEscrow_Begin(p, e, winnerId) ==
  /\ Accept(p)
  /\ WS_releaseEscrow_Read(p, [op |-> "WS.releaseEscrow", e |-> e,
                               winnerId |-> winnerId, nested |-> FALSE])
  /\ wrote' = [wrote EXCEPT ![p] = (wstatus' # wstatus)]
  /\ UNCHANGED dupWallets
  /\ UNCHANGED <<balance, txns, bets, matches, escrows, payouts, eventStarted, opening>>

\* lines 430-444: Transaction.create (buffered) and updateBalance
WS_releaseEscrow_Update(p) ==
  /\ pc[p] = "WS.releaseEscrow.update"
  /\ LET l == loc[p]
         c == updateBalanceCheck(l.winnerId, l.winnings)
     IN IF c # "ok" THEN Finish(p, c)
        ELSE Goto(p, "WS.releaseEscrow.commit",
                  l @@ [winnerBalance |-> updateBalanceValue(l.winnerId, l.winnings)])
  /\ UNCHANGED <<dbvars, eventStarted, wrote, opening, nops>>

\* lines 447-463: Payout.create, escrow.update, t.commit(); the bet match is
\* not touched
WS_releaseEscrow_Commit(p) ==
  /\ pc[p] = "WS.releaseEscrow.commit"
  /\ LET l == loc[p]
     IN /\ txns' = Append(txns, NewTxn(l.winnerId, l.winnings, "win", "completed", l.e))
        /\ balance' = [balance EXCEPT ![l.winnerId] = l.winnerBalance]
        /\ payouts' = Append(payouts, NewPayout(l.winnerId, l.e, l.winnings, Len(txns) + 1))
        /\ escrows' = [escrows EXCEPT ![l.e].status = "completed",
                                      ![l.e].winner_id = l.winnerId,
                                      ![l.e].released = TRUE]
        /\ IF l.nested
           THEN Goto(p, "WS.resolveDispute.commit", l)
           ELSE Finish(p, "ok")
  /\ wrote' = [wrote EXCEPT ![p] = TRUE]
  /\ UNCHANGED <<wstatus, dupWallets, bets, matches, eventStarted, opening, nops>>

----------------------------------------------------------------------------
(* walletService.disputeEscrow(escrowId, userId, reason): no transaction *)

\* lines 496-523
WS_disputeEscrow_Begin(p, e, userId) ==
  /\ Accept(p)
  /\ LET o == [op |-> "WS.disputeEscrow", e |-> e, userId |-> userId] IN
     IF e \notin DOMAIN escrows
     THEN Reject(p, o, "Escrow not found")
     ELSE IF escrows[e].status # "active"
     THEN Reject(p, o, "Escrow is not active")
     ELSE IF userId # CreatorOf(e) /\ userId # TakerOf(e)
     THEN Reject(p, o, "User is not part of this bet")
     ELSE Goto(p, "WS.disputeEscrow.write", Locals(o, <<>>))
  /\ wrote' = [wrote EXCEPT ![p] = FALSE]
  /\ UNCHANGED <<dbvars, eventStarted, opening>>

\* lines 526-529: escrow.update(...) only
WS_disputeEscrow_Write(p) ==
  /\ pc[p] = "WS.disputeEscrow.write"
  /\ escrows' = [escrows EXCEPT ![loc[p].e].status = "disputed",
                                ![loc[p].e].dispute_reason = TRUE]
  /\ Finish(p, "ok")
  /\ wrote' = [wrote EXCEPT ![p] = TRUE]
  /\ UNCHANGED <<balance, wstatus, dupWallets, txns, bets, matches, payouts, eventStarted,
                 opening, nops>>

----------------------------------------------------------------------------
(* walletService.resolveDispute(escrowId, winnerId, adminId, notes) *)

\* lines 552-584: load the escrow, status check, escrow.update (buffered)
WS_resolveDispute_Begin(p, e, winnerId) ==
  /\ Accept(p)
  /\ LET o == [op |-> "WS.resolveDispute", e |-> e, winnerId |-> winnerId,
               adminId |-> Admin, nested |-> TRUE] IN
     IF e \notin DOMAIN escrows
     THEN Reject(p, o, "Escrow not found")
     ELSE IF escrows[e].status # "disputed"
     THEN Reject(p, o, "Escrow is not disputed")
     ELSE IF winnerId # NoUser
     THEN Goto(p, "WS.resolveDispute.release", Locals(o, <<>>))
     ELSE Goto(p, "WS.resolveDispute.commit", Locals(o, <<>>))
  /\ wrote' = [wrote EXCEPT ![p] = FALSE]
  /\ UNCHANGED <<dbvars, eventStarted, opening>>

\* line 590: releaseEscrow(escrowId, winnerId) opens its own transaction and
\* loads the escrow again; what it throws ends resolveDispute (rollback)
WS_resolveDispute_Release(p) ==
  /\ pc[p] = "WS.resolveDispute.release"
  /\ WS_releaseEscrow_Read(p, loc[p].call)
  /\ wrote' = [wrote EXCEPT ![p] = (wstatus' # wstatus)]
  /\ UNCHANGED dupWallets
  /\ UNCHANGED <<balance, txns, bets, matches, escrows, payouts, eventStarted,
                 opening, nops>>

\* lines 597-608: (refund) escrow.update to 'refunded', no wallet is credited;
\* t.commit() also writes resolved_by / resolution_notes
WS_resolveDispute_Commit(p) ==
  /\ pc[p] = "WS.resolveDispute.commit"
  /\ LET l == loc[p] IN
     escrows' = IF l.winnerId # NoUser
                THEN [escrows EXCEPT ![l.e].resolved_by = l.adminId]
                ELSE [escrows EXCEPT ![l.e].resolved_by = l.adminId,
                                     ![l.e].status = "refunded",
                                     ![l.e].released = TRUE]
  /\ Finish(p, "ok")
  /\ wrote' = [wrote EXCEPT ![p] = TRUE]
  /\ UNCHANGED <<balance, wstatus, dupWallets, txns, bets, matches, payouts, eventStarted,
                 opening, nops>>

----------------------------------------------------------------------------
(* walletService.processWithdrawal(userId, amount, method, details) *)

\* lines 234-245: the amount against MIN_ and MAX_WITHDRAWAL_AMOUNT
withdrawalLimitsCheck_NoMinimum(amount) ==
  IF amount > MaxWithdrawalAmount THEN "Maximum withdrawal amount"
  ELSE "ok"
withdrawalLimitsCheck(amount) ==
  IF amount < MinWithdrawalAmount THEN "Minimum withdrawal amount"
  ELSE IF amount > MaxWithdrawalAmount THEN "Maximum withdrawal amount"
  ELSE "ok"

\* parseFloat of a value that is no number (undefined, null): NaN.  A number
\* read from the environment or from the store is held as the set of its
\* values, so that NaN, which compares false with everything, is the empty set.
NaN == {}

\* line 237: process.env.DAILY_WITHDRAWAL_LIMIT.  No environment file of the
\* repository sets it (NaN); a deployment may set it (15.00 here).
DailyLimitChoices == {NaN, {1500}}

\* lines 259-268: Transaction.sum('amount') over the wallet's pending and
\* completed withdrawals created today (every Transaction of a run is of the
\* same day).  The stored amounts are negative (line 277); the sum of no row
\* is null.
dailyWithdrawals(userId) ==
  LET rows == SelectSeq(txns, LAMBDA t : /\ t.wallet = userId
                                         /\ t.type = "withdrawal"
                                         /\ t.status \in {"pending", "completed"})
  IN IF rows = <<>> THEN NaN ELSE {SumAmount(rows)}

\* line 270: parseFloat(dailyWithdrawals) + parseFloat(amount) > dailyLimit
dailyLimitExceeded(userId, amount, dailyLimit) ==
  \E s \in dailyWithdrawals(userId), l \in dailyLimit : s + amount > l

\* lines 231-272: amount limits, getWallet, balance check, daily limit
WS_processWithdrawal_Limited(p, userId, amount, dailyLimit) ==
  /\ Accept(p)
  /\ LET o == [op |-> "WS.processWithdrawal", userId |-> userId, amount |-> amount] IN
     IF withdrawalLimitsCheck(amount) # "ok"
     THEN Reject(p, o, withdrawalLimitsCheck(amount)) /\ UNCHANGED wstatus
     ELSE /\ wstatus' = getWallet(wstatus, userId)
          /\ IF balance[userId] < amount
             THEN Reject(p, o, "Insufficient funds")
             ELSE IF dailyLimitExceeded(userId, amount, dailyLimit)
             THEN Reject(p, o, "Daily withdrawal limit exceeded")
             ELSE Goto(p, "WS.processWithdrawal.update", Locals(o, <<>>))
  /\ wrote' = [wrote EXCEPT ![p] = (wstatus' # wstatus)]
  /\ UNCHANGED dupWallets
  /\ UNCHANGED <<balance, txns, bets, matches, escrows, payouts, eventStarted, opening>>

WS_processWithdrawal_Begin(p, userId, amount) ==
  \E dailyLimit \in DailyLimitChoices :
    WS_processWithdrawal_Limited(p, userId, amount, dailyLimit)

\* lines 275-288: Transaction.create (buffered) and updateBalance
WS_processWithdrawal_Update(p) ==
  /\ pc[p] = "WS.processWithdrawal.update"
  /\ LET l == loc[p]
         c == updateBalanceCheck(l.userId, -l.amount)
     IN IF c # "ok" THEN Finish(p, c)
        ELSE Goto(p, "WS.processWithdrawal.commit",
                  l @@ [newBalance |-> updateBalanceValue(l.userId, -l.amount)])
  /\ UNCHANGED <<dbvars, eventStarted, wrote, opening, nops>>

\* line 294: t.commit()
WS_processWithdrawal_Commit(p) ==
  /\ pc[p] = "WS.processWithdrawal.commit"
  /\ LET l == loc[p]
     IN /\ txns' = Append(txns, NewTxn(l.userId, -l.amount, "withdrawal", "pending", 0))
        /\ balance' = [balance EXCEPT ![l.userId] = l.newBalance]
  /\ Finish(p, "ok")
  /\ wrote' = [wrote EXCEPT ![p] = TRUE]
  /\ UNCHANGED <<wstatus, dupWallets, bets, matches, escrows, payouts, eventStarted, opening, nops>>

----------------------------------------------------------------------------
(* walletService.processDeposit(userId, amount, paymentMethodId) *)

\* what stripe.paymentIntents.create answers: the status of the intent, or an
\* error.  The Stripe API refuses an amount that is not a positive integer.
StripeAnswers(amount) ==
  IF amount <= 0 THEN {"StripeInvalidRequestError"}
  ELSE {"succeeded", "requires_action", "StripeCardError"}

\* lines 151-182: amount limits, getWallet, payment intent.
\* MIN_DEPOSIT_AMOUNT and MAX_DEPOSIT_AMOUNT are set in no environment file,
\* so minAmount and maxAmount are NaN and the comparisons of lines 154 and
\* 158 are false for every amount.
WS_processDeposit_Begin(p, userId, amount) ==
  /\ Accept(p)
  /\ LET o == [op |-> "WS.processDeposit", userId |-> userId, amount |-> amount] IN
     /\ wstatus' = getWallet(wstatus, userId)
     /\ \E answer \in StripeAnswers(amount) :
          IF answer = "succeeded"
          THEN Goto(p, "WS.processDeposit.update", Locals(o, <<>>))
          ELSE IF answer = "requires_action"
          THEN Reject(p, o, "Payment failed")
          ELSE Reject(p, o, answer)
  /\ wrote' = [wrote EXCEPT ![p] = (wstatus' # wstatus)]
  /\ UNCHANGED dupWallets
  /\ UNCHANGED <<balance, txns, bets, matches, escrows, payouts, eventStarted, opening>>

\* lines 185-199: Transaction.create (buffered) and updateBalance
WS_processDeposit_Update(p) ==
  /\ pc[p] = "WS.processDeposit.update"
  /\ LET l == loc[p]
         c == updateBalanceCheck(l.userId, l.amount)
     IN IF c # "ok" THEN Finish(p, c)
        ELSE Goto(p, "WS.processDeposit.commit",
                  l @@ [newBalance |-> updateBalanceValue(l.userId, l.amount)])
  /\ UNCHANGED <<dbvars, eventStarted, wrote, opening, nops>>

\* line 201: t.commit()
WS_processDeposit_Commit(p) ==
  /\ pc[p] = "WS.processDeposit.commit"
  /\ LET l == loc[p]
     IN /\ txns' = Append(txns, NewTxn(l.userId, l.amount, "deposit", "completed", 0))
        /\ balance' = [balance EXCEPT ![l.userId] = l.newBalance]
  /\ Finish(p, "ok")
  /\ wrote' = [wrote EXCEPT ![p] = TRUE]
  /\ UNCHANGED <<wstatus, dupWallets, bets, matches, escrows, payouts, eventStarted, opening, nops>>

----------------------------------------------------------------------------
(* BettingService.createBet(userId, betData) *)

\* lines 392-438: Wallet.findOne, balance check, event checks, payout,
\* Bet.create (buffered; validators: stake_amount >= 1, potential_payout >= 0)
BS_createBet_Begin(p, userId, stake, odds) ==
  /\ Accept(p)
  /\ LET o == [op |-> "BS.createBet", userId |-> userId, stake |-> stake, odds |-> odds] IN
     IF wstatus[userId] = "none"
     THEN Reject(p, o, "Wallet not found")
     ELSE IF balance[userId] < stake
     THEN Reject(p, o, "Insufficient balance")
     ELSE IF eventStarted
     THEN Reject(p, o, "Cannot place bet on event that has already started")
     ELSE IF stake < MinStake
     THEN Reject(p, o, "Validation error")
     ELSE \E potentialPayout \in PotentialPayout(stake, odds) :
            Goto(p, "BS.createBet.commit", Locals(o, [potentialPayout |-> potentialPayout]))
  /\ wrote' = [wrote EXCEPT ![p] = FALSE]
  /\ UNCHANGED <<dbvars, eventStarted, opening>>

\* lines 441-453: Transaction.create, wallet.decrement (UPDATE balance =
\* balance - stake, no validator runs), commit
BS_createBet_Commit(p) ==
  /\ pc[p] = "BS.createBet.commit"
  /\ LET l == loc[p]
     IN /\ bets' = Append(bets, NewBet(l.userId, l.stake, l.odds, l.potentialPayout, "open"))
        /\ txns' = Append(txns, NewTxn(l.userId, -l.stake, "bet_place", "completed",
                                        Len(bets) + 1))
        /\ balance' = [balance EXCEPT ![l.userId] = @ - l.stake]
  /\ Finish(p, "ok")
  /\ wrote' = [wrote EXCEPT ![p] = TRUE]
  /\ UNCHANGED <<wstatus, dupWallets, matches, escrows, payouts, eventStarted, opening, nops>>

----------------------------------------------------------------------------
(* BettingService.takeBet(userId, betId) *)

\* lines 470-549: load the bet, status / event / creator checks, Wallet.findOne,
\* requiredStake, balance check, fee, Escrow.create and BetMatch.create.
\* bet.stake_amount is a DECIMAL attribute, which Sequelize hands over as a
\* string under PostgreSQL (the only driver in package.json), and requiredStake
\* is a number: totalPot = bet.stake_amount + requiredStake (line 529)
\* concatenates ("2.25" + 1.8 is "2.251.8"), so platformFee (line 530) and
\* the match's potential_payout (line 545) are NaN.  BetMatch.create runs the
\* validators isDecimal and min on both (BetMatch.js 34-56) and throws; the
\* catch block rolls the transaction back.  The code after line 549
\* (escrow.update, bet.update, Transaction.create, wallet.decrement) is never
\* reached.
BS_takeBet_Begin(p, userId, betId) ==
  /\ Accept(p)
  /\ LET o == [op |-> "BS.takeBet", userId |-> userId, betId |-> betId] IN
     IF betId \notin DOMAIN bets
     THEN Reject(p, o, "Bet not found")
     ELSE IF bets[betId].status # "open"
     THEN Reject(p, o, "Bet is not open for matching")
     ELSE IF eventStarted
     THEN Reject(p, o, "Cannot take bet on event that has already started")
     ELSE IF bets[betId].creator_id = userId
     THEN Reject(p, o, "Cannot take your own bet")
     ELSE IF wstatus[userId] = "none"
     THEN Reject(p, o, "Wallet not found")
     ELSE IF balance[userId] < RequiredStake(bets[betId])
     THEN Reject(p, o, "Insufficient balance")
     ELSE Reject(p, o, "Validation error")
  /\ wrote' = [wrote EXCEPT ![p] = FALSE]
  /\ UNCHANGED <<dbvars, eventStarted, opening>>

----------------------------------------------------------------------------
(* BettingService.cancelBet(userId, betId) *)

\* lines 597-610: the bet exists, the caller is its creator, the bet is open
cancelBetCheck_NoStatusCheck(userId, betId) ==
  IF betId \notin DOMAIN bets THEN "Bet not found"
  ELSE IF bets[betId].creator_id # userId THEN "Only the creator can cancel this bet"
  ELSE "ok"
cancelBetCheck(userId, betId) ==
  IF betId \notin DOMAIN bets THEN "Bet not found"
  ELSE IF bets[betId].creator_id # userId THEN "Only the creator can cancel this bet"
  ELSE IF bets[betId].status # "open" THEN "Only open bets can be cancelled"
  ELSE "ok"

\* lines 594-621: load the bet, creator and status checks, Wallet.findOne,
\* bet.update (buffered); a creator without a wallet row makes wallet.id
\* (line 627) throw
BS_cancelBet_Begin(p, userId, betId) ==
  /\ Accept(p)
  /\ LET o == [op |-> "BS.cancelBet", userId |-> userId, betId |-> betId] IN
     IF cancelBetCheck(userId, betId) # "ok"
     THEN Reject(p, o, cancelBetCheck(userId, betId))
     ELSE IF wstatus[userId] = "none"
     THEN Reject(p, o, "TypeError")
     ELSE Goto(p, "BS.cancelBet.commit", Locals(o, [stake |-> bets[betId].amount]))
  /\ wrote' = [wrote EXCEPT ![p] = FALSE]
  /\ UNCHANGED <<dbvars, eventStarted, opening>>

\* lines 619-637: bet.update (UPDATE bets SET status = 'cancelled' WHERE id),
\* Transaction.create, wallet.increment, commit
BS_cancelBet_Commit(p) ==
  /\ pc[p] = "BS.cancelBet.commit"
  /\ LET l == loc[p]
     IN /\ bets' = [bets EXCEPT ![l.betId].status = "cancelled"]
        /\ txns' = Append(txns, NewTxn(l.userId, l.stake, "bet_refund", "completed", l.betId))
        /\ balance' = [balance EXCEPT ![l.userId] = @ + l.stake]
  /\ Finish(p, "ok")
  /\ wrote' = [wrote EXCEPT ![p] = TRUE]
  /\ UNCHANGED <<wstatus, dupWallets, matches, escrows, payouts, eventStarted, opening, nops>>

----------------------------------------------------------------------------
(* BettingService.settleBet(betMatchId, eventResult) *)

\* lines 657-704: load the match with its bet (event, creator), taker and
\* escrow; status checks; determineWinner(betMatch.bet, eventResult).
\* determineWinner reads bet.matches[0] (line 977), but the bet was loaded
\* without its matches, so bet.matches is undefined and the read throws a
\* TypeError: the code after line 704 (escrow release, the bet_win and fee
\* Transactions, wallet.increment) is never reached.
BS_settleBet_Begin(p, m) ==
  /\ Accept(p)
  /\ LET o == [op |-> "BS.settleBet", m |-> m] IN
     IF m \notin DOMAIN matches
     THEN Reject(p, o, "Bet match not found")
     ELSE IF matches[m].status # "active"
     THEN Reject(p, o, "Bet match is not active")
     ELSE IF \E e \in DOMAIN escrows :
               escrows[e].bet_match_id = m /\ escrows[e].status # "held"
     THEN Reject(p, o, "Escrow funds are not held")
     ELSE Reject(p, o, "TypeError")
  /\ wrote' = [wrote EXCEPT ![p] = FALSE]
  /\ UNCHANGED <<dbvars, eventStarted, opening>>

\* the clock passes the event's start_time
EventStarts ==
  /\ ~eventStarted
  /\ eventStarted' = TRUE
  /\ UNCHANGED <<dbvars, pc, loc, outcome, wrote, opening, nops>>

----------------------------------------------------------------------------
(* A persistence failure (timeout, connection loss) inside a handler that  *)
(* runs in a transaction: the catch block rolls back and rethrows.         *)

InTransaction(p) ==
  pc[p] \in {"ES.createEscrow.update", "ES.createEscrow.commit",
             "ES.releaseEscrow.update", "ES.releaseEscrow.commit",
             "ES.resolveDispute.update", "ES.resolveDispute.commit",
             "WS.releaseEscrow.update", "WS.releaseEscrow.commit",
             "WS.resolveDispute.release", "WS.resolveDispute.commit",
             "WS.processWithdrawal.update", "WS.processWithdrawal.commit",
             "WS.processDeposit.update", "WS.processDeposit.commit",
             "BS.createBet.commit", "BS.cancelBet.commit"}

PersistenceFailure(p) ==
  /\ InTransaction(p)
  /\ Finish(p, "PersistenceError")
  /\ UNCHANGED <<dbvars, eventStarted, wrote, opening, nops>>

----------------------------------------------------------------------------
(* The escrow lifecycle: one bet of u1 matched by u2, not yet funded *)

InitWorkers ==
  /\ pc = [p \in Procs |-> "idle"]
  /\ loc = [p \in Procs |-> NoLoc]
  /\ outcome = [p \in Procs |-> NoOutcome]
  /\ wrote = [p \in Procs |-> FALSE]
  /\ nops = 0

InitEscrow ==
  /\ \E stake \in StakeChoices : \E odds \in OddsChoices :
     \E payout \in PotentialPayout(stake, odds) :
       LET bet == NewBet("u1", stake, odds, payout, "matched") IN
       /\ bets = <<bet>>
       /\ matches = <<NewBetMatch(1, "u2", RequiredStake(bet), "matched")>>
  /\ \E b1, b2 \in EscrowBalanceChoices :
       balance = [u \in Users |-> IF u = "u1" THEN b1 ELSE IF u = "u2" THEN b2 ELSE 0]
  /\ opening = balance
  /\ wstatus = [u \in Users |-> IF u = "u3" THEN "none" ELSE "active"]
  /\ dupWallets = [u \in Users |-> 0]
  /\ txns = <<>>
  /\ escrows = <<>>
  /\ payouts = <<>>
  /\ eventStarted = FALSE
  /\ InitWorkers

EscrowIds == 1..Len(escrows)
MatchIds == 1..Len(matches)

NextEscrow ==
  \E p \in Procs :
    \/ \E m \in MatchIds : ES_createEscrow_Begin(p, m)
    \/ ES_createEscrow_Update(p)
    \/ ES_createEscrow_Commit(p)
    \/ \E e \in EscrowIds, w \in Users : ES_releaseEscrow_Begin(p, e, w)
    \/ ES_releaseEscrow_Update(p)
    \/ ES_releaseEscrow_Commit(p)
    \/ \E e \in EscrowIds, u \in Users : ES_createDispute_Begin(p, e, u)
    \/ ES_createDispute_Write(p)
    \/ \E e \in EscrowIds, w \in Users \cup {NoUser} : ES_resolveDispute_Begin(p, e, w)
    \/ ES_resolveDispute_Update(p)
    \/ ES_resolveDispute_Commit(p)
    \/ \E e \in EscrowIds, w \in Users : WS_releaseEscrow_Begin(p, e, w)
    \/ WS_releaseEscrow_Update(p)
    \/ WS_releaseEscrow_Commit(p)
    \/ \E e \in EscrowIds, u \in Users : WS_disputeEscrow_Begin(p, e, u)
    \/ WS_disputeEscrow_Write(p)
    \/ \E e \in EscrowIds, w \in Users \cup {NoUser} : WS_resolveDispute_Begin(p, e, w)
    \/ WS_resolveDispute_Release(p)
    \/ WS_resolveDispute_Commit(p)
    \/ PersistenceFailure(p)

SpecEscrow == InitEscrow /\ [][NextEscrow]_vars

----------------------------------------------------------------------------
(* Properties of the escrow lifecycle *)

TxnsOf(e, types) == SelectSeq(txns, LAMBDA t : t.ref = e /\ t.type \in types)
PayoutsOf(e) == SelectSeq(payouts, LAMBDA q : q.escrow_id = e)
EscrowsOf(m) == {e \in DOMAIN escrows : escrows[e].bet_match_id = m}
Failed(p) == outcome[p].res \notin {"ok", "none"}

\* C1: once an escrow is completed or refunded, what was debited from the
\* parties to fund it equals what left it: the win credit plus the platform
\* fee, or the refund credits.
C1_Conservation ==
  \A e \in DOMAIN escrows :
    escrows[e].status \in {"completed", "refunded"} =>
      -SumAmount(TxnsOf(e, {"bet"})) =
         SumAmount(TxnsOf(e, {"win", "refund"}))
           + (IF escrows[e].status = "completed" THEN escrows[e].platform_fee ELSE 0)

\* C3: a bet match never has more than one escrow nor more than one pair of
\* funding debits, however many createEscrow calls were made for it.
C3_SingleFunding ==
  \A m \in DOMAIN matches :
    /\ Cardinality(EscrowsOf(m)) <= 1
    /\ Len(SelectSeq(txns, LAMBDA t : t.type = "bet" /\ t.ref \in EscrowsOf(m))) <= 2

\* C4: an escrow is paid out at most once: at most one Payout and one win
\* credit, also when release / resolveDispute run concurrently.
C4_SingleRelease ==
  \A e \in DOMAIN escrows :
    /\ Len(PayoutsOf(e)) <= 1
    /\ Len(TxnsOf(e, {"win"})) <= 1

LegalEscrowTransitions ==
  {<<"active", "completed">>, <<"active", "disputed">>, <<"active", "refunded">>,
   <<"active", "cancelled">>, <<"disputed", "completed">>, <<"disputed", "refunded">>}

\* C5: the status of an escrow changes only along the legal transitions.
C5_LegalTransitions ==
  [][\A e \in DOMAIN escrows :
       escrows'[e].status # escrows[e].status =>
         <<escrows[e].status, escrows'[e].status>> \in LegalEscrowTransitions]_vars

\* C6: a call that failed has left no committed change behind.
C6_AllOrNothing == \A p \in Procs : (pc[p] = "idle" /\ Failed(p)) => ~wrote[p]

\* C8: the stored platform fee is amount * rate rounded to the cent, and
\* what is paid to a winner plus the fee is the amount, with no residual.
C8_FeeCorrect ==
  \A e \in DOMAIN escrows :
    LET A == escrows[e].amount
        fee == escrows[e].platform_fee
    IN /\ 2 * (FeeRateDen * fee - FeeRateNum * A) <= FeeRateDen
       /\ 2 * (FeeRateNum * A - FeeRateDen * fee) <= FeeRateDen
       /\ \A i \in DOMAIN payouts :
            payouts[i].escrow_id = e => payouts[i].amount + fee = A
       /\ \A i \in DOMAIN txns :
            (txns[i].ref = e /\ txns[i].type = "win") => txns[i].amount + fee = A

\* a winner was paid from an escrow whose fee needed rounding
C8_Witness ==
  \E i \in DOMAIN payouts :
    (escrows[payouts[i].escrow_id].amount * FeeRateNum) % FeeRateDen # 0

\* C9: the amount of an escrow is the creator's stake plus the taker's
\* required stake of its bet match.
C9_AmountIsSumOfStakes ==
  \A e \in DOMAIN escrows :
    LET m == matches[escrows[e].bet_match_id]
    IN escrows[e].amount = bets[m.bet_id].amount + m.stake_amount

----------------------------------------------------------------------------
(* The ledger under bets and withdrawals: wallets of u1 and u2, no bet yet *)

InitLedger ==
  /\ \E b1, b2 \in LedgerBalanceChoices :
       balance = [u \in Users |-> IF u = "u1" THEN b1 ELSE IF u = "u2" THEN b2 ELSE 0]
  /\ opening = balance
  /\ wstatus = [u \in Users |-> IF u = "u3" THEN "none" ELSE "active"]
  /\ dupWallets = [u \in Users |-> 0]
  /\ txns = <<>>
  /\ bets = <<>>
  /\ matches = <<>>
  /\ escrows = <<>>
  /\ payouts = <<>>
  /\ eventStarted = FALSE
  /\ InitWorkers

NextLedger ==
  \/ \E p \in Procs :
       \/ \E u \in Users, a \in WithdrawalChoices : WS_processWithdrawal_Begin(p, u, a)
       \/ WS_processWithdrawal_Update(p)
       \/ WS_processWithdrawal_Commit(p)
       \/ \E u \in Users, stake \in StakeChoices, odds \in OddsChoices :
            BS_createBet_Begin(p, u, stake, odds)
       \/ BS_createBet_Commit(p)
       \/ \E u \in Users, b \in DOMAIN bets : BS_takeBet_Begin(p, u, b)
       \/ \E u \in Users, b \in DOMAIN bets : BS_cancelBet_Begin(p, u, b)
       \/ BS_cancelBet_Commit(p)
       \/ \E m \in BetMatchIdChoices : BS_settleBet_Begin(p, m)
       \/ PersistenceFailure(p)
  \/ EventStarts

SpecLedger == InitLedger /\ [][NextLedger]_vars

AllIdle == \A p \in Procs : pc[p] = "idle"

----------------------------------------------------------------------------
(* Properties of single calls *)

Solo(p) == \A q \in Procs \ {p} : pc[q] = "idle"

NextEscrowSerial ==
  \E p \in Procs :
    \/ Solo(p) /\ \E m \in MatchIds : ES_createEscrow_Begin(p, m)
    \/ Solo(p) /\ ES_createEscrow_Update(p)
    \/ Solo(p) /\ ES_createEscrow_Commit(p)
    \/ Solo(p) /\ \E e \in EscrowIds, w \in Users : ES_releaseEscrow_Begin(p, e, w)
    \/ Solo(p) /\ ES_releaseEscrow_Update(p)
    \/ Solo(p) /\ ES_releaseEscrow_Commit(p)
    \/ Solo(p) /\ \E e \in EscrowIds, u \in Users : ES_createDispute_Begin(p, e, u)
    \/ Solo(p) /\ ES_createDispute_Write(p)
    \/ Solo(p) /\ \E e \in EscrowIds, w \in Users \cup {NoUser} : ES_resolveDispute_Begin(p, e, w)
    \/ Solo(p) /\ ES_resolveDispute_Update(p)
    \/ Solo(p) /\ ES_resolveDispute_Commit(p)
    \/ Solo(p) /\ \E e \in EscrowIds, w \in Users : WS_releaseEscrow_Begin(p, e, w)
    \/ Solo(p) /\ WS_releaseEscrow_Update(p)
    \/ Solo(p) /\ WS_releaseEscrow_Commit(p)
    \/ Solo(p) /\ \E e \in EscrowIds, u \in Users : WS_disputeEscrow_Begin(p, e, u)
    \/ Solo(p) /\ WS_disputeEscrow_Write(p)
    \/ Solo(p) /\ \E e \in EscrowIds, w \in Users \cup {NoUser} : WS_resolveDispute_Begin(p, e, w)
    \/ Solo(p) /\ WS_resolveDispute_Release(p)
    \/ Solo(p) /\ WS_resolveDispute_Commit(p)
    \/ Solo(p) /\ PersistenceFailure(p)

SpecEscrowSerial == InitEscrow /\ [][NextEscrowSerial]_vars

\* C12: a release of an active escrow to its creator or taker, run on its
\* own, is accepted and credits the winner with exactly amount - platform_fee,
\* records one win Transaction and one Payout of that amount, completes the
\* escrow with winner and release stamp, settles the bet match, and leaves
\* every other balance as it was.
C12_ReleasePaysWinner ==
  [][\A p \in Procs :
       /\ \A e \in EscrowIds, w \in Users :
            (ES_releaseEscrow_Begin(p, e, w) /\ escrows[e].status = "active"
               /\ w \in {CreatorOf(e), TakerOf(e)})
              => pc'[p] = "ES.releaseEscrow.update"
       /\ ES_releaseEscrow_Update(p) => pc'[p] = "ES.releaseEscrow.commit"
       /\ ES_releaseEscrow_Commit(p) =>
            LET e == loc[p].e
                w == loc[p].winnerId
                m == escrows[e].bet_match_id
                paid == escrows[e].amount - escrows[e].platform_fee
            IN /\ outcome'[p].res = "ok"
               /\ balance' = [balance EXCEPT ![w] = @ + paid]
               /\ txns' = Append(txns, NewTxn(w, paid, "win", "completed", e))
               /\ Len(payouts') = Len(payouts) + 1
               /\ payouts'[Len(payouts')].amount = paid
               /\ payouts'[Len(payouts')].user_id = w
               /\ payouts'[Len(payouts')].escrow_id = e
               /\ escrows'[e].status = "completed"
               /\ escrows'[e].winner_id = w
               /\ escrows'[e].released
               /\ matches'[m].status = "settled"]_vars

\* the taker was paid the winnings of an escrow by escrowService.releaseEscrow
C12_Witness ==
  \E p \in Procs, e \in DOMAIN escrows :
    /\ pc[p] = "idle"
    /\ outcome[p].op.op = "ES.releaseEscrow"
    /\ outcome[p].res = "ok"
    /\ outcome[p].op.e = e
    /\ outcome[p].op.winnerId = TakerOf(e)
    /\ escrows[e].status = "completed"
    /\ Len(payouts) = 1

\* C13: on an active escrow, a release to a user who is neither creator nor
\* taker and a dispute by such a user are refused by every release / dispute
\* entry point, and the refusal changes no row.
C13_NonPartyRejected ==
  [][\A p \in Procs, e \in EscrowIds, u \in Users :
       (/\ escrows[e].status = "active"
        /\ u \notin {CreatorOf(e), TakerOf(e)}
        /\ \/ ES_releaseEscrow_Begin(p, e, u)
           \/ WS_releaseEscrow_Begin(p, e, u)
           \/ ES_createDispute_Begin(p, e, u)
           \/ WS_disputeEscrow_Begin(p, e, u))
         => /\ pc'[p] = "idle"
            /\ outcome'[p].res \in {"Winner is not part of this bet",
                                    "User is not part of this bet"}
            /\ UNCHANGED dbvars]_vars

\* C14: a dispute opened by a party on an active escrow succeeds: the escrow
\* is disputed with the reason recorded, its bet match is disputed as well,
\* and no balance, Transaction or Payout changes.
C14_DisputeOpens ==
  [][\A p \in Procs :
       /\ \A e \in EscrowIds, u \in Users :
            (ES_createDispute_Begin(p, e, u) /\ escrows[e].status = "active"
               /\ u \in {CreatorOf(e), TakerOf(e)})
              => pc'[p] = "ES.createDispute.write"
       /\ ES_createDispute_Write(p) =>
            LET e == loc[p].e IN
            /\ outcome'[p].res = "ok"
            /\ escrows'[e].status = "disputed"
            /\ escrows'[e].dispute_reason
            /\ matches'[escrows[e].bet_match_id].status = "disputed"
            /\ UNCHANGED <<balance, txns, payouts>>]_vars

\* what user u paid into escrow e: its funding debits
Contributed(u, e) ==
  -SumAmount(SelectSeq(txns, LAMBDA t : t.ref = e /\ t.type = "bet" /\ t.wallet = u))

C16_ResolveLikeRelease ==
  [][\A p \in Procs :
       /\ \A e \in EscrowIds, w \in Users :
            (/\ escrows[e].status = "disputed"
             /\ ES_resolveDispute_Begin(p, e, w) \/ WS_resolveDispute_Begin(p, e, w))
              => IF w \in {CreatorOf(e), TakerOf(e)}
                 THEN pc'[p] # "idle"
                 ELSE pc'[p] = "idle" /\ outcome'[p].res # "ok" /\ UNCHANGED dbvars
       /\ (ES_resolveDispute_Update(p) /\ loc[p].winnerId # NoUser)
            => pc'[p] = "ES.resolveDispute.commit"
       /\ WS_resolveDispute_Release(p) => pc'[p] # "idle"
       /\ (ES_resolveDispute_Commit(p) /\ loc[p].winnerId # NoUser) =>
            LET e == loc[p].e
                w == loc[p].winnerId
                paid == escrows[e].amount - escrows[e].platform_fee
            IN /\ outcome'[p].res = "ok"
               /\ balance' = [balance EXCEPT ![w] = @ + paid]
               /\ txns' = Append(txns, NewTxn(w, paid, "win", "completed", e))
               /\ payouts' = Append(payouts, NewPayout(w, e, paid, Len(txns) + 1))
               /\ escrows'[e].status = "completed"
               /\ escrows'[e].winner_id = w
               /\ escrows'[e].resolved_by = loc[p].adminId
               /\ matches'[escrows[e].bet_match_id].status = "settled"]_vars

\* C17: once all calls have finished, each wallet's balance is its opening
\* balance plus the amounts of its Transactions that have not failed: every
\* balance change is matched by one Transaction and the reverse.
C17_BalanceExplainedByTransactions ==
  AllIdle =>
    \A u \in Users :
      balance[u] = opening[u]
        + SumAmount(SelectSeq(txns, LAMBDA t : t.wallet = u /\ t.status # "failed"))

----------------------------------------------------------------------------
(* walletService.createWallet / getWallet / updateBalance called directly. *)
(* None of the three opens a transaction or takes a lock; every await is a *)
(* point where another request can run.                                    *)

NoSuchUser == "u0"                 \* an id with no User row
WalletUserChoices == Users \cup {NoSuchUser}
AmountChoices == {-500, 200}
WalletBalanceChoices == {0, 300}
WalletStatusChoices == {"active", "suspended", "closed"}

\* Wallet.findOne({ where: { user_id, currency } }) finds a row
hasWallet(userId) == userId \in Users /\ wstatus[userId] # "none"

\* createWallet lines 20-35: User.findByPk, then Wallet.findOne
createWalletCheck(userId) ==
  IF userId \notin Users THEN "User not found"
  ELSE IF hasWallet(userId) THEN "ok"
  ELSE "create"

\* getWallet lines 81-93: Wallet.findOne; the wallet if found, else createWallet
WS_getWallet_FindOne(p, userId) ==
  /\ Accept(p)
  /\ LET o == [op |-> "WS.getWallet", userId |-> userId] IN
     IF hasWallet(userId)
     THEN Reject(p, o, "ok")
     ELSE Goto(p, "WS.createWallet.check", Locals(o, [via |-> "getWallet"]))
  /\ wrote' = [wrote EXCEPT ![p] = FALSE]
  /\ UNCHANGED <<dbvars, eventStarted, opening>>

\* createWallet entered from getWallet (line 90): lines 20-35
WS_createWallet_Check(p) ==
  /\ pc[p] = "WS.createWallet.check"
  /\ IF createWalletCheck(loc[p].userId) = "create"
     THEN Goto(p, "WS.createWallet.create", loc[p])
     ELSE Finish(p, createWalletCheck(loc[p].userId))
  /\ UNCHANGED <<dbvars, eventStarted, wrote, opening, nops>>

\* createWallet called directly: lines 20-35
WS_createWallet_Begin(p, userId) ==
  /\ Accept(p)
  /\ LET o == [op |-> "WS.createWallet", userId |-> userId] IN
     IF createWalletCheck(userId) = "create"
     THEN Goto(p, "WS.createWallet.create", Locals(o, [via |-> "createWallet"]))
     ELSE Reject(p, o, createWalletCheck(userId))
  /\ wrote' = [wrote EXCEPT ![p] = FALSE]
  /\ UNCHANGED <<dbvars, eventStarted, opening>>

\* createWallet lines 38-66, after the Stripe customer call returned:
\* Wallet.create({ balance: 0, status: 'active' }).  When another request has
\* inserted a row for the pair in the meantime, the insert adds a second row,
\* or fails if the Wallets table has a unique index on (user_id, currency);
\* the Wallet model is not part of the sources, so both outcomes are kept.
WS_createWallet_Create(p) ==
  /\ pc[p] = "WS.createWallet.create"
  /\ LET u == loc[p].userId IN
     IF wstatus[u] = "none"
     THEN /\ wstatus' = [wstatus EXCEPT ![u] = "active"]
          /\ balance' = [balance EXCEPT ![u] = 0]
          /\ wrote' = [wrote EXCEPT ![p] = TRUE]
          /\ Finish(p, "ok")
          /\ UNCHANGED dupWallets
     ELSE \/ /\ dupWallets' = [dupWallets EXCEPT ![u] = @ + 1]
             /\ wrote' = [wrote EXCEPT ![p] = TRUE]
             /\ Finish(p, "ok")
             /\ UNCHANGED <<wstatus, balance>>
          \/ /\ Finish(p, "SequelizeUniqueConstraintError")
             /\ UNCHANGED <<wstatus, balance, dupWallets, wrote>>
  /\ UNCHANGED <<txns, bets, matches, escrows, payouts, eventStarted, opening, nops>>

\* updateBalance lines 109-125: Wallet.findByPk, the three checks, and the
\* new balance computed from the balance read
WS_updateBalance_Begin(p, walletId, amount) ==
  /\ Accept(p)
  /\ LET o == [op |-> "WS.updateBalance", walletId |-> walletId, amount |-> amount] IN
     IF updateBalanceCheck(walletId, amount) # "ok"
     THEN Reject(p, o, updateBalanceCheck(walletId, amount))
     ELSE Goto(p, "WS.updateBalance.save",
               Locals(o, [newBalance |-> updateBalanceValue(walletId, amount)]))
  /\ wrote' = [wrote EXCEPT ![p] = FALSE]
  /\ UNCHANGED <<dbvars, eventStarted, opening>>

\* updateBalance lines 126-132: wallet.save() writes the computed balance
WS_updateBalance_Save(p) ==
  /\ pc[p] = "WS.updateBalance.save"
  /\ balance' = [balance EXCEPT ![loc[p].walletId] = loc[p].newBalance]
  /\ wrote' = [wrote EXCEPT ![p] = TRUE]
  /\ Finish(p, "ok")
  /\ UNCHANGED <<wstatus, dupWallets, txns, bets, matches, escrows, payouts,
                 eventStarted, opening, nops>>

\* wallets: u1 active, u2 active / suspended / closed, u3 has none yet
InitWallet ==
  /\ \E b1, b2 \in WalletBalanceChoices :
       balance = [u \in Users |-> IF u = "u1" THEN b1 ELSE IF u = "u2" THEN b2 ELSE 0]
  /\ opening = balance
  /\ \E s2 \in WalletStatusChoices :
       wstatus = [u \in Users |-> IF u = "u1" THEN "active"
                                  ELSE IF u = "u2" THEN s2 ELSE "none"]
  /\ dupWallets = [u \in Users |-> 0]
  /\ txns = <<>>
  /\ bets = <<>>
  /\ matches = <<>>
  /\ escrows = <<>>
  /\ payouts = <<>>
  /\ eventStarted = FALSE
  /\ InitWorkers

NextWallet ==
  \E p \in Procs :
    \/ \E u \in WalletUserChoices : WS_getWallet_FindOne(p, u)
    \/ \E u \in WalletUserChoices : WS_createWallet_Begin(p, u)
    \/ WS_createWallet_Check(p)
    \/ WS_createWallet_Create(p)
    \/ \E u \in Users, a \in AmountChoices : WS_updateBalance_Begin(p, u, a)
    \/ WS_updateBalance_Save(p)

SpecWallet == InitWallet /\ [][NextWallet]_vars

\* the same requests, served one at a time
NextWalletSerial ==
  \E p \in Procs :
    \/ Solo(p) /\ \E u \in WalletUserChoices : WS_getWallet_FindOne(p, u)
    \/ Solo(p) /\ \E u \in WalletUserChoices : WS_createWallet_Begin(p, u)
    \/ Solo(p) /\ WS_createWallet_Check(p)
    \/ Solo(p) /\ WS_createWallet_Create(p)
    \/ Solo(p) /\ \E u \in Users, a \in AmountChoices : WS_updateBalance_Begin(p, u, a)
    \/ Solo(p) /\ WS_updateBalance_Save(p)

SpecWalletSerial == InitWallet /\ [][NextWalletSerial]_vars

\* C18: under any interleaving of getWallet / createWallet calls there is at
\* most one wallet per (user, currency), and a getWallet or createWallet call
\* for an existing user ends by returning a wallet; finding an existing wallet
\* changes no row, and a first wallet is active with balance 0.
C18_GetWalletIdempotent ==
  /\ \A u \in Users : dupWallets[u] = 0
  /\ \A p \in Procs :
       (/\ pc[p] = "idle"
        /\ outcome[p].op.op \in {"WS.getWallet", "WS.createWallet"}
        /\ outcome[p].op.userId \in Users)
         => outcome[p].res = "ok"

\* C19: updateBalance(walletId, a) fails with 'Wallet not found' when there
\* is no such wallet, with 'Wallet is not active' when the wallet is suspended
\* or closed, and with 'Insufficient funds' when balance + a < 0, leaving
\* every balance unchanged; otherwise it succeeds and sets the wallet's
\* balance to exactly balance + a, leaving the other wallets alone.
C19_UpdateBalanceContract ==
  [][\A p \in Procs :
       /\ \A u \in Users, a \in AmountChoices :
            WS_updateBalance_Begin(p, u, a) =>
              /\ balance' = balance
              /\ IF wstatus[u] = "none"
                 THEN pc'[p] = "idle" /\ outcome'[p].res = "Wallet not found"
                 ELSE IF wstatus[u] \in {"suspended", "closed"}
                 THEN pc'[p] = "idle" /\ outcome'[p].res = "Wallet is not active"
                 ELSE IF balance[u] + a < 0
                 THEN pc'[p] = "idle" /\ outcome'[p].res = "Insufficient funds"
                 ELSE pc'[p] = "WS.updateBalance.save"
       /\ WS_updateBalance_Save(p) =>
            /\ outcome'[p].res = "ok"
            /\ balance' = [balance EXCEPT ![loc[p].walletId] = @ + loc[p].amount]]_vars

\* one call has changed a balance by its amount, another was refused on a
\* wallet that is not active
C19_Witness ==
  \E p, q \in Procs :
    /\ pc[p] = "idle" /\ pc[q] = "idle"
    /\ outcome[p].op.op = "WS.updateBalance" /\ outcome[p].res = "ok"
    /\ balance[outcome[p].op.walletId]
         = opening[outcome[p].op.walletId] + outcome[p].op.amount
    /\ outcome[q].op.op = "WS.updateBalance"
    /\ outcome[q].res = "Wallet is not active"
    /\ balance[outcome[q].op.walletId] = opening[outcome[q].op.walletId]

\* C20: takeBet fails when the bet is not open, when the taker is the bet's
\* creator, or when the event has started, and then creates no BetMatch and
\* leaves the bet unchanged; a taker with a wallet that covers the required
\* stake who takes an open bet of somebody else before the event starts gets
\* exactly one new BetMatch, active, with stake potential_payout - creator
\* stake, and the Bet becomes matched.
C20_TakeBetContract ==
  [][\A p \in Procs, u \in Users, b \in DOMAIN bets :
       BS_takeBet_Begin(p, u, b) =>
         IF bets[b].status # "open" \/ bets[b].creator_id = u \/ eventStarted
         THEN /\ pc'[p] = "idle" /\ outcome'[p].res # "ok"
              /\ matches' = matches /\ bets' = bets
         ELSE (wstatus[u] = "active" /\ balance[u] >= RequiredStake(bets[b]))
                => /\ Len(matches') = Len(matches) + 1
                   /\ matches'[Len(matches')] =
                        NewBetMatch(b, u, RequiredStake(bets[b]), "active")
                   /\ bets' = [bets EXCEPT ![b].status = "matched"]]_vars

----------------------------------------------------------------------------
(* The bet operations served one request at a time *)

NextBetsSerial ==
  \/ \E p \in Procs :
       \/ Solo(p) /\ \E u \in Users, stake \in StakeChoices, odds \in OddsChoices :
                       BS_createBet_Begin(p, u, stake, odds)
       \/ Solo(p) /\ BS_createBet_Commit(p)
       \/ Solo(p) /\ \E u \in Users, b \in DOMAIN bets : BS_takeBet_Begin(p, u, b)
       \/ Solo(p) /\ \E u \in Users, b \in DOMAIN bets : BS_cancelBet_Begin(p, u, b)
       \/ Solo(p) /\ BS_cancelBet_Commit(p)
  \/ EventStarts

SpecBetsSerial == InitLedger /\ [][NextBetsSerial]_vars

C22_OnePayoutPerWin ==
  \A e \in EscrowIds :
    /\ Len(PayoutsOf(e)) <= 1
    /\ (Len(PayoutsOf(e)) > 0) <=> (escrows[e].status = "completed")
    /\ \A i \in DOMAIN PayoutsOf(e) :
         /\ PayoutsOf(e)[i].user_id = escrows[e].winner_id
         /\ PayoutsOf(e)[i].amount = escrows[e].amount - escrows[e].platform_fee

----------------------------------------------------------------------------
(* Deposits and withdrawals: wallets of u1 and u2, amounts of any sign *)

DepositChoices == {-5000, 0, 2000}
PaymentWithdrawalChoices == {-5000, 0, 500, 1000}

NextPayments ==
  \E p \in Procs :
    \/ \E u \in Users, a \in DepositChoices : WS_processDeposit_Begin(p, u, a)
    \/ WS_processDeposit_Update(p)
    \/ WS_processDeposit_Commit(p)
    \/ \E u \in Users, a \in PaymentWithdrawalChoices : WS_processWithdrawal_Begin(p, u, a)
    \/ WS_processWithdrawal_Update(p)
    \/ WS_processWithdrawal_Commit(p)
    \/ PersistenceFailure(p)

SpecPayments == InitLedger /\ [][NextPayments]_vars

\* withdrawals served one at a time
NextWithdrawalSerial ==
  \E p \in Procs :
    \/ Solo(p) /\ \E u \in Users, a \in PaymentWithdrawalChoices :
                    WS_processWithdrawal_Begin(p, u, a)
    \/ Solo(p) /\ WS_processWithdrawal_Update(p)
    \/ Solo(p) /\ WS_processWithdrawal_Commit(p)
    \/ Solo(p) /\ PersistenceFailure(p)

SpecWithdrawalSerial == InitLedger /\ [][NextWithdrawalSerial]_vars

\* C23: processDeposit and processWithdrawal called with an amount that is
\* zero or negative throw 'Amount must be positive' and leave the balances
\* and the Transactions unchanged.
C23_NonPositiveAmountRejected ==
  [][\A p \in Procs, u \in Users :
       /\ \A a \in DepositChoices :
            (WS_processDeposit_Begin(p, u, a) /\ a <= 0) =>
              /\ pc'[p] = "idle" /\ outcome'[p].res = "Amount must be positive"
              /\ balance' = balance /\ txns' = txns
       /\ \A a \in PaymentWithdrawalChoices :
            (WS_processWithdrawal_Begin(p, u, a) /\ a <= 0) =>
              /\ pc'[p] = "idle" /\ outcome'[p].res = "Amount must be positive"
              /\ balance' = balance /\ txns' = txns]_vars

----------------------------------------------------------------------------
(* BettingService.determineWinner(bet, eventResult), applied to a bet that *)
(* was loaded together with its match                                       *)

ScoreChoices == 0..1
SpreadChoices == {-1, 1}
TotalChoices == {1}

\* bet_type and bet_details of the bets handed in
BetKindChoices ==
  [bet_type : {"moneyline"}, bet_details : [pick : {"home", "away"}]]
  \cup [bet_type : {"spread"},
        bet_details : [pick : {"home", "away"}, spread : SpreadChoices]]
  \cup [bet_type : {"over_under"},
        bet_details : [pick : {"over", "under"}, total : TotalChoices]]
  \cup [bet_type : {"prop"}, bet_details : [pick : {"first_scorer"}]]

\* a Bet of u1 with its one BetMatch, taken by u2
BetOfKind(k) ==
  [creator_id |-> "u1", bet_type |-> k.bet_type, bet_details |-> k.bet_details,
   matches |-> <<[taker_id |-> "u2"]>>]

determineWinner_PushVoid(bet, eventResult) ==
  LET home_score == eventResult.home_score
      away_score == eventResult.away_score
      creator_id == bet.creator_id
      taker_id == bet.matches[1].taker_id
  IN CASE bet.bet_type = "moneyline" ->
            IF home_score = away_score THEN NoUser
            ELSE IF bet.bet_details.pick = "home"
            THEN (IF home_score > away_score THEN creator_id ELSE taker_id)
            ELSE (IF away_score > home_score THEN creator_id ELSE taker_id)
       [] bet.bet_type = "spread" ->
            LET adjustedHomeScore == home_score + bet.bet_details.spread
            IN IF bet.bet_details.pick = "home"
               THEN (IF adjustedHomeScore > away_score THEN creator_id ELSE taker_id)
               ELSE (IF adjustedHomeScore < away_score THEN creator_id ELSE taker_id)
       [] bet.bet_type = "over_under" ->
            LET actualTotal == home_score + away_score
            IN IF bet.bet_details.pick = "over"
               THEN (IF actualTotal > bet.bet_details.total THEN creator_id ELSE taker_id)
               ELSE (IF actualTotal < bet.bet_details.total THEN creator_id ELSE taker_id)
       [] bet.bet_type = "prop" -> creator_id
       [] OTHER -> "Unknown bet type"
\* lines 972-1021; bet.matches[0] is matches[1] here (sequences count from 1)
determineWinner(bet, eventResult) ==
  LET home_score == eventResult.home_score
      away_score == eventResult.away_score
      creator_id == bet.creator_id
      taker_id == bet.matches[1].taker_id
  IN CASE bet.bet_type = "moneyline" ->
            IF bet.bet_details.pick = "home"
            THEN (IF home_score > away_score THEN creator_id ELSE taker_id)
            ELSE (IF away_score > home_score THEN creator_id ELSE taker_id)
       [] bet.bet_type = "spread" ->
            LET adjustedHomeScore == home_score + bet.bet_details.spread
            IN IF bet.bet_details.pick = "home"
               THEN (IF adjustedHomeScore > away_score THEN creator_id ELSE taker_id)
               ELSE (IF adjustedHomeScore < away_score THEN creator_id ELSE taker_id)
       [] bet.bet_type = "over_under" ->
            LET actualTotal == home_score + away_score
            IN IF bet.bet_details.pick = "over"
               THEN (IF actualTotal > bet.bet_details.total THEN creator_id ELSE taker_id)
               ELSE (IF actualTotal < bet.bet_details.total THEN creator_id ELSE taker_id)
       [] bet.bet_type = "prop" -> creator_id
       [] OTHER -> "Unknown bet type"

\* one application of determineWinner; the function reads its two arguments
\* and writes nothing
BS_determineWinner(p, k, home_score, away_score) ==
  /\ Accept(p)
  /\ LET bet == BetOfKind(k)
         eventResult == [home_score |-> home_score, away_score |-> away_score]
     IN Reject(p, [op |-> "BS.determineWinner", bet |-> bet, eventResult |-> eventResult],
               determineWinner(bet, eventResult))
  /\ wrote' = [wrote EXCEPT ![p] = FALSE]
  /\ UNCHANGED <<dbvars, eventStarted, opening>>

NextWinner ==
  \E p \in Procs : \E k \in BetKindChoices : \E h, a \in ScoreChoices :
    BS_determineWinner(p, k, h, a)

\* the wallets of the two parties; no bet rows are needed
InitWinner == InitLedger /\ balance = [u \in Users |-> IF u = "u3" THEN 0 ELSE 3000]

SpecWinner == InitWinner /\ [][NextWinner]_vars

C26_PaidEscrowNotDisputed ==
  \A e \in EscrowIds :
    /\ ~(escrows[e].status = "disputed" /\ Len(TxnsOf(e, {"win"})) > 0)
    /\ Len(TxnsOf(e, {"win"})) <= 1
    /\ Len(TxnsOf(e, {"refund"})) <= 2
    /\ ~(Len(TxnsOf(e, {"win"})) > 0 /\ Len(TxnsOf(e, {"refund"})) > 0)

MatchStatusFor(escrowStatus) ==
  CASE escrowStatus = "active" -> "active"
    [] escrowStatus = "disputed" -> "disputed"
    [] escrowStatus = "completed" -> "settled"
    [] escrowStatus = "refunded" -> "cancelled"
    [] OTHER -> "none"

\* C28: whenever no request is in progress, the status of every BetMatch
\* that has an escrow is the one that goes with the escrow's status: active
\* with active, disputed with disputed, settled with completed, cancelled
\* with refunded.
C28_MatchFollowsEscrow ==
  AllIdle =>
    \A e \in EscrowIds :
      matches[escrows[e].bet_match_id].status = MatchStatusFor(escrows[e].status)

----------------------------------------------------------------------------
(* routes/escrowRoutes.js: the HTTP surface of the escrow service. Every   *)
(* route runs behind auth.authenticate (line 15), so the caller is a       *)
(* user; auth.isAdmin is installed at line 54, after the release and       *)
(* dispute routes and before the resolve route.                            *)

\* middleware/auth.js 67-76: isAdmin lets a request through only when the
\* caller's role is 'admin'
isAdmin(caller) == caller = Admin

\* lines 18-25: POST /, controller createEscrow
POST_escrow(p, caller, m) == ES_createEscrow_Begin(p, m)

\* lines 34-41: POST /:id/release, controller releaseEscrow: winner_id is
\* taken from the body and handed to the service; the caller is not looked at
POST_release(p, caller, e, winnerId) == ES_releaseEscrow_Begin(p, e, winnerId)

\* lines 44-51: POST /:id/dispute, controller createDispute with req.user.id
POST_dispute(p, caller, e) == ES_createDispute_Begin(p, e, caller)

\* lines 54-64: POST /:id/resolve behind isAdmin, controller resolveDispute
POST_resolve(p, caller, e, winnerId) ==
  IF isAdmin(caller)
  THEN ES_resolveDispute_Begin(p, e, winnerId)
  ELSE /\ Accept(p)
       /\ Reject(p, [op |-> "POST /:id/resolve", e |-> e, winnerId |-> winnerId,
                     caller |-> caller],
                 "Access denied. Admin privileges required.")
       /\ wrote' = [wrote EXCEPT ![p] = FALSE]
       /\ UNCHANGED <<dbvars, eventStarted, opening>>

NextEscrowRoutes ==
  \E p \in Procs :
    \/ Solo(p) /\ \E caller \in Users, m \in MatchIds : POST_escrow(p, caller, m)
    \/ Solo(p) /\ ES_createEscrow_Update(p)
    \/ Solo(p) /\ ES_createEscrow_Commit(p)
    \/ Solo(p) /\ \E caller \in Users, e \in EscrowIds, w \in Users :
                    POST_release(p, caller, e, w)
    \/ Solo(p) /\ ES_releaseEscrow_Update(p)
    \/ Solo(p) /\ ES_releaseEscrow_Commit(p)
    \/ Solo(p) /\ \E caller \in Users, e \in EscrowIds : POST_dispute(p, caller, e)
    \/ Solo(p) /\ ES_createDispute_Write(p)
    \/ Solo(p) /\ \E caller \in Users, e \in EscrowIds, w \in Users \cup {NoUser} :
                    POST_resolve(p, caller, e, w)
    \/ Solo(p) /\ ES_resolveDispute_Update(p)
    \/ Solo(p) /\ ES_resolveDispute_Commit(p)

SpecEscrowRoutes == InitEscrow /\ [][NextEscrowRoutes]_vars

\* C29: a release or resolve request made by an authenticated user who is
\* not an admin is turned away: it ends at once with an error and leaves
\* every escrow, balance and transaction as it found them.
C29_OnlyAdminMovesFunds ==
  [][\A p \in Procs, caller \in Users \ {Admin}, e \in EscrowIds,
        w \in Users \cup {NoUser} :
       (POST_release(p, caller, e, w) \/ POST_resolve(p, caller, e, w))
         => /\ pc'[p] = "idle"
            /\ outcome'[p].res # "ok"
            /\ escrows' = escrows /\ balance' = balance /\ txns' = txns]_vars

----------------------------------------------------------------------------
\* what a wallet has withdrawn today: its pending and completed withdrawals
WithdrawnToday(userId) ==
  -SumAmount(SelectSeq(txns, LAMBDA t : /\ t.wallet = userId
                                        /\ t.type = "withdrawal"
                                        /\ t.status \in {"pending", "completed"}))

\* C30: under a configured DAILY_WITHDRAWAL_LIMIT, a withdrawal that would
\* take what the wallet has withdrawn today above the limit is rejected and
\* changes neither the balance nor the Transactions.
C30_DailyLimitKept ==
  [][\A p \in Procs, u \in Users, a \in PaymentWithdrawalChoices,
        dailyLimit \in DailyLimitChoices \ {NaN} :
       (/\ WS_processWithdrawal_Limited(p, u, a, dailyLimit)
        /\ \E l \in dailyLimit : WithdrawnToday(u) + a > l)
         => /\ pc'[p] = "idle"
            /\ Failed(p)'
            /\ balance' = balance /\ txns' = txns]_vars
====
